---- MODULE Spec2Model ----
(***************************************************************************)
(* A model of the two MCP servers of the repository:                       *)
(*   src/server.py        the calculator server (plus, sub, mul, div,      *)
(*                        history) and its CSV calculation ledger;         *)
(*   src/jedox_server.py  the Jedox gateway server.                        *)
(*                                                                         *)
(* JSON / Python values are records [k, n, d, s]: k is the kind, n/d the   *)
(* number (a reduced fraction, d > 0), s the characters of a string.       *)
(* Text (a CSV cell, a message) is a sequence of characters; the fixed     *)
(* words of the program (an f-string's literal parts, the operation names, *)
(* the CSV header) are kept as one element each.                           *)
(***************************************************************************)
EXTENDS Integers, Sequences, FiniteSets, TLC

VARIABLES store, diskOk, sess

vars == <<store, diskOk, sess>>

----------------------------------------------------------------------------
(* Values *)

NoneV == [k |-> "none", n |-> 0, d |-> 1, s |-> <<>>]

AbsentV == [k |-> "absent", n |-> 0, d |-> 1, s |-> <<>>]

IntV(i) == [k |-> "int", n |-> i, d |-> 1, s |-> <<>>]

BoolV(b) == [k |-> "bool", n |-> IF b THEN 1 ELSE 0, d |-> 1, s |-> <<>>]

StrV(t) == [k |-> "str", n |-> 0, d |-> 1, s |-> t]

\* A JSON array of strings; s holds the strings.
ListV(items) == [k |-> "list", n |-> 0, d |-> 1, s |-> items]

Abs(i) == IF i < 0 THEN -i ELSE i

RECURSIVE Gcd(_, _)
Gcd(x, y) == IF y = 0 THEN x ELSE Gcd(y, x % y)

\* A Python float, kept as the reduced fraction num/den (den > 0); den = 0
\* gives inf, -inf or nan by the sign of num.
FloatV(num, den) ==
    IF den = 0
    THEN [k |-> "float", n |-> (IF num > 0 THEN 1 ELSE IF num < 0 THEN -1 ELSE 0),
          d |-> 0, s |-> <<>>]
    ELSE LET sn == IF den < 0 THEN -num ELSE num
             sd == Abs(den)
             g  == Gcd(Abs(sn), sd)
         IN  [k |-> "float", n |-> sn \div g, d |-> sd \div g, s |-> <<>>]

\* The floats that are no fraction, kept with den = 0: inf (what json.loads
\* makes of 1e999 and Infinity), -inf, nan.
Inf == FloatV(1, 0)

NaN == FloatV(0, 0)

IsInf(v) == v.k = "float" /\ v.d = 0 /\ v.n # 0

\* The float -0.0 (0 / -2, float("-0.0")): equal to 0, written "-0.0".
NegZero == [k |-> "float", n |-> 0, d |-> 1, s |-> <<"-">>]

\* The sign bit of a number.
Negative(v) == v.n < 0 \/ v = NegZero

\* The float num/den, given the sign bit the operation gives a zero or an inf.
SignedFloat(num, den, negative) ==
    IF den = 0 THEN (IF num = 0 THEN NaN ELSE FloatV(IF negative THEN -1 ELSE 1, 0))
    ELSE IF num = 0 /\ negative THEN NegZero ELSE FloatV(num, den)

\* dict.get(key): None for a key that is absent.
Get(v) == IF v.k = "absent" THEN NoneV ELSE v

\* dict.get(key, default)
GetDefault(v, default) == IF v.k = "absent" THEN default ELSE v

IsNone(v) == v.k = "none"

IsNum(v) == v.k \in {"int", "float", "bool"}

IsIntLike(v) == v.k \in {"int", "bool"}

TypeName(v) == IF v.k = "none" THEN "NoneType" ELSE v.k

----------------------------------------------------------------------------
(* Text: str(), repr of a float, int(), float() *)

Digits == <<"0", "1", "2", "3", "4", "5", "6", "7", "8", "9">>

DigitSet == {Digits[i] : i \in 1..10}

DigitVal(c) == (CHOOSE i \in 1..10 : Digits[i] = c) - 1

RECURSIVE NatStr(_)
NatStr(i) ==
    IF i < 10 THEN <<Digits[i + 1]>>
    ELSE NatStr(i \div 10) \o <<Digits[(i % 10) + 1]>>

IntStr(i) == IF i < 0 THEN <<"-">> \o NatStr(-i) ELSE NatStr(i)

\* The decimal digits of r/den (r < den); exact for every fraction that ends
\* within the digits allowed.
RECURSIVE FracDigits(_, _, _)
FracDigits(r, den, left) ==
    IF r = 0 \/ left = 0 THEN <<>>
    ELSE <<Digits[((r * 10) \div den) + 1]>> \o FracDigits((r * 10) % den, den, left - 1)

\* repr(float): "2.0", "0.5", "-1.25", "-0.0", "inf", "-inf", "nan".
FloatStr(v) ==
    IF v.d = 0
    THEN (IF v.n = 0 THEN <<"n", "a", "n">>
          ELSE (IF v.n < 0 THEN <<"-">> ELSE <<>>) \o <<"i", "n", "f">>)
    ELSE LET m  == Abs(v.n)
             ip == m \div v.d
             fr == FracDigits(m % v.d, v.d, 8)
         IN  (IF Negative(v) THEN <<"-">> ELSE <<>>) \o NatStr(ip) \o <<".">>
                 \o (IF fr = <<>> THEN <<"0">> ELSE fr)

\* repr of a list of strings: ['2024', 'Beijing'].
RECURSIVE ReprItems(_)
ReprItems(items) ==
    IF items = <<>> THEN <<>>
    ELSE <<"'">> \o items[1] \o <<"'">>
            \o (IF Len(items) = 1 THEN <<>> ELSE <<", ">> \o ReprItems(Tail(items)))

ListRepr(items) == <<"[">> \o ReprItems(items) \o <<"]">>

\* str(v), which is also how an f-string formats v.
Str(v) ==
    CASE v.k = "int" -> IntStr(v.n)
      [] v.k = "float" -> FloatStr(v)
      [] v.k = "bool" -> IF v.n = 1 THEN <<"T", "r", "u", "e">>
                         ELSE <<"F", "a", "l", "s", "e">>
      [] v.k = "str" -> v.s
      [] v.k = "list" -> ListRepr(v.s)
      [] OTHER -> <<"N", "o", "n", "e">>

\* csv.writer writes None as the empty field and everything else with str().
CsvCell(v) == IF v.k = "none" THEN <<>> ELSE Str(v)

AllDigits(t) == \A i \in 1..Len(t) : t[i] \in DigitSet

RECURSIVE DigitsVal(_)
DigitsVal(t) ==
    IF t = <<>> THEN 0
    ELSE DigitsVal(SubSeq(t, 1, Len(t) - 1)) * 10 + DigitVal(t[Len(t)])

RECURSIVE Pow10(_)
Pow10(e) == IF e = 0 THEN 1 ELSE 10 * Pow10(e - 1)

Signed(t) == t # <<>> /\ t[1] \in {"-", "+"}

Unsigned(t) == IF Signed(t) THEN Tail(t) ELSE t

SignOf(t) == IF t # <<>> /\ t[1] = "-" THEN -1 ELSE 1

\* int(text): an optional sign and at least one digit, a ValueError otherwise.
ParseInt(t) ==
    LET u == Unsigned(t)
    IN  IF u # <<>> /\ AllDigits(u)
        THEN [ok |-> TRUE, v |-> IntV(SignOf(t) * DigitsVal(u))]
        ELSE [ok |-> FALSE, v |-> NoneV]

\* float(text): an optional sign, then "inf", "nan", or digits with at most one
\* point and at least one digit; a ValueError otherwise.
ParseFloat(t) ==
    LET u    == Unsigned(t)
        dots == {i \in 1..Len(u) : u[i] = "."}
    IN  IF u = <<"i", "n", "f">> THEN [ok |-> TRUE, v |-> FloatV(SignOf(t), 0)]
        ELSE IF u = <<"n", "a", "n">> THEN [ok |-> TRUE, v |-> NaN]
        ELSE IF dots = {}
        THEN IF u # <<>> /\ AllDigits(u)
             THEN [ok |-> TRUE, v |-> SignedFloat(SignOf(t) * DigitsVal(u), 1, SignOf(t) < 0)]
             ELSE [ok |-> FALSE, v |-> NoneV]
        ELSE LET p  == CHOOSE i \in dots : TRUE
                 ip == SubSeq(u, 1, p - 1)
                 fp == SubSeq(u, p + 1, Len(u))
             IN  IF Cardinality(dots) = 1 /\ AllDigits(ip) /\ AllDigits(fp)
                    /\ Len(ip) + Len(fp) > 0
                 THEN [ok |-> TRUE,
                       v |-> SignedFloat(SignOf(t) * (DigitsVal(ip) * Pow10(Len(fp))
                                                         + DigitsVal(fp)),
                                         Pow10(Len(fp)), SignOf(t) < 0)]
                 ELSE [ok |-> FALSE, v |-> NoneV]

----------------------------------------------------------------------------
(* Python's arithmetic on JSON scalars: a value, or the exception raised *)

Value(v) == [ok |-> TRUE, v |-> v, err |-> <<>>]

Raise(msg) == [ok |-> FALSE, v |-> NoneV, err |-> msg]

Unsupported(sym, a, b) ==
    Raise(<<"unsupported operand type(s) for ", sym, ": '", TypeName(a),
            "' and '", TypeName(b), "'">>)

RECURSIVE Repeat(_, _)
Repeat(t, times) == IF times <= 0 THEN <<>> ELSE t \o Repeat(t, times - 1)

\* a + b
PyAdd(a, b) ==
    CASE IsNum(a) /\ IsNum(b) ->
            IF a.k = "float" \/ b.k = "float"
            THEN IF IsInf(a) /\ a = b THEN Value(a)
                 ELSE IF a.d * b.d = 0 THEN Value(FloatV(a.n * b.d + b.n * a.d, 0))
                 ELSE Value(SignedFloat(a.n * b.d + b.n * a.d, a.d * b.d,
                                        a = NegZero /\ b = NegZero))
            ELSE Value(IntV(a.n + b.n))
      [] a.k = "str" /\ b.k = "str" -> Value(StrV(a.s \o b.s))
      [] a.k = "str" ->
            Raise(<<"can only concatenate str (not \"", TypeName(b), "\") to str">>)
      [] OTHER -> Unsupported("+", a, b)

\* a - b
PySub(a, b) ==
    IF IsNum(a) /\ IsNum(b)
    THEN IF a.k = "float" \/ b.k = "float"
         THEN IF IsInf(a) /\ IsInf(b) /\ a.n = -b.n THEN Value(a)
              ELSE IF a.d * b.d = 0 THEN Value(FloatV(a.n * b.d - b.n * a.d, 0))
              ELSE Value(SignedFloat(a.n * b.d - b.n * a.d, a.d * b.d,
                                     a = NegZero /\ b.n = 0 /\ b # NegZero))
         ELSE Value(IntV(a.n - b.n))
    ELSE Unsupported("-", a, b)

\* a * b
PyMul(a, b) ==
    CASE IsNum(a) /\ IsNum(b) ->
            IF a.k = "float" \/ b.k = "float"
            THEN Value(SignedFloat(a.n * b.n, a.d * b.d, Negative(a) # Negative(b)))
            ELSE Value(IntV(a.n * b.n))
      [] a.k = "str" /\ IsIntLike(b) -> Value(StrV(Repeat(a.s, b.n)))
      [] IsIntLike(a) /\ b.k = "str" -> Value(StrV(Repeat(b.s, a.n)))
      [] a.k = "str" /\ b.k # "none" ->
            Raise(<<"can't multiply sequence by non-int of type '", TypeName(b), "'">>)
      [] b.k = "str" /\ a.k # "none" ->
            Raise(<<"can't multiply sequence by non-int of type '", TypeName(a), "'">>)
      [] OTHER -> Unsupported("*", a, b)

\* a / b
PyDiv(a, b) ==
    IF IsNum(a) /\ IsNum(b)
    THEN IF b.n = 0 /\ b.d # 0 THEN Raise(<<"division by zero">>)
         ELSE Value(SignedFloat(a.n * b.d, a.d * b.n, Negative(a) # Negative(b)))
    ELSE Unsupported("/", a, b)

\* EqZero were it to know the integer 0 only (not 0.0, not false).
EqZeroIntOnly(b) == b.k = "int" /\ b.n = 0 /\ b.d # 0

\* b == 0
EqZero(b) == IsNum(b) /\ b.n = 0 /\ b.d # 0

----------------------------------------------------------------------------
(* The calculation ledger: the CSV file of src/server.py *)

\* The header row init_csv writes.
Header ==
    << <<"id">>, <<"operation">>, <<"operand_a">>, <<"operand_b">>, <<"result">>,
       <<"timestamp">> >>

\* datetime.now().isoformat(): the instant is not modelled, the cell is.
Timestamp == <<"timestamp-iso">>

\* CSV_FILE before the first request: no file.
NoFile == [exists |-> FALSE, lines |-> <<>>]

\* The file holding the header row and no entry.
EmptyLedger == [exists |-> TRUE, lines |-> <<Header>>]

\* init_csv were it to write the header whether the file exists or not.
init_csv_always(st, io) ==
    IF io THEN [ok |-> TRUE, st |-> EmptyLedger] ELSE [ok |-> FALSE, st |-> st]

\* init_csv(): writes the header when the file does not exist. The result is
\* the file afterwards, or the exception open() raised.
init_csv(st, io) ==
    IF st.exists THEN [ok |-> TRUE, st |-> st]
    ELSE IF io THEN [ok |-> TRUE, st |-> EmptyLedger]
    ELSE [ok |-> FALSE, st |-> st]

\* The rows csv.reader yields after next(reader) skipped the header.
DataRows(st) == Tail(st.lines)

\* NextId without the "+ 1": the last row's id is used again.
NextIdNoIncrement(rows) ==
    IF rows = <<>> THEN [ok |-> TRUE, v |-> IntV(1)] ELSE ParseInt(rows[Len(rows)][1])

\* "Get next ID": 1, or the last row's id plus one.
NextId(rows) ==
    IF rows = <<>> THEN [ok |-> TRUE, v |-> IntV(1)]
    ELSE LET last == ParseInt(rows[Len(rows)][1])
         IN  IF last.ok THEN [ok |-> TRUE, v |-> IntV(last.v.n + 1)] ELSE last

\* The row writer.writerow writes.
LedgerRow(id, operation, a, b, result) ==
    <<CsvCell(id), <<operation>>, CsvCell(a), CsvCell(b), CsvCell(result), Timestamp>>

\* save_calculation were the append to go through whatever open() does.
save_calculation_blind(st, io, operation, a, b, result) ==
    LET file    == IF st.exists THEN st ELSE EmptyLedger
        next_id == NextId(DataRows(file))
    IN  IF ~next_id.ok THEN file
        ELSE [file EXCEPT !.lines =
                 Append(@, LedgerRow(next_id.v, operation, a, b, result))]

\* save_calculation were the file opened with mode 'w': the row written is all
\* the file holds.
save_calculation_truncating(st, io, operation, a, b, result) ==
    LET file    == IF st.exists THEN st ELSE EmptyLedger
        next_id == NextId(DataRows(file))
    IN  IF ~io \/ ~next_id.ok THEN st
        ELSE [file EXCEPT !.lines = <<LedgerRow(next_id.v, operation, a, b, result)>>]

\* save_calculation(operation, a, b, result): the file afterwards. Every
\* exception is caught and logged, and leaves the file as it was when raised.
save_calculation(st, io, operation, a, b, result) ==
    LET init == init_csv(st, io)
    IN  IF ~init.ok \/ ~io THEN init.st
        ELSE IF init.st.lines = <<>> THEN init.st
        ELSE LET next_id == NextId(DataRows(init.st))
             IN  IF ~next_id.ok THEN init.st
                 ELSE [init.st EXCEPT !.lines =
                          Append(@, LedgerRow(next_id.v, operation, a, b, result))]

\* rows[-limit:] of a list of `len` rows: the index (from 0) the slice starts at.
SliceStart(len, limit) ==
    IF -limit < 0 THEN (IF len - limit < 0 THEN 0 ELSE len - limit)
    ELSE (IF -limit > len THEN len ELSE -limit)

\* LastRows were it to take the first rows (rows[:limit]).
FirstRows(rows, limit) ==
    SubSeq(rows, 1, IF limit < Len(rows) THEN limit ELSE Len(rows))

\* rows[-limit:]
LastRows(rows, limit) == SubSeq(rows, SliceStart(Len(rows), limit) + 1, Len(rows))

Reversed(q) == [i \in 1..Len(q) |-> q[Len(q) + 1 - i]]

\* One history entry from a DictReader row; ok is FALSE when int() or float()
\* raises ValueError.
HistoryEntry(row) ==
    LET id == ParseInt(row[1])
        a  == ParseFloat(row[3])
        b  == ParseFloat(row[4])
        r  == ParseFloat(row[5])
    IN  [ok |-> id.ok /\ a.ok /\ b.ok /\ r.ok,
         e  |-> [id |-> id.v, operation |-> row[2], operand_a |-> a.v,
                 operand_b |-> b.v, result |-> r.v, timestamp |-> row[6]]]

\* get_calculation_history(limit): the file afterwards (init_csv may create
\* it) and the list returned, which is [] whenever an exception is raised.
get_calculation_history(st, io, limit) ==
    LET init == init_csv(st, io)
    IN  IF ~init.ok \/ ~io THEN [st |-> init.st, history |-> <<>>]
        ELSE IF ~IsIntLike(limit) THEN [st |-> init.st, history |-> <<>>]
        ELSE LET rows    == IF init.st.lines = <<>> THEN <<>> ELSE DataRows(init.st)
                 picked  == Reversed(LastRows(rows, limit.n))
                 entries == [i \in 1..Len(picked) |-> HistoryEntry(picked[i])]
             IN  IF \A i \in 1..Len(entries) : entries[i].ok
                 THEN [st |-> init.st,
                       history |-> [i \in 1..Len(entries) |-> entries[i].e]]
                 ELSE [st |-> init.st, history |-> <<>>]

----------------------------------------------------------------------------
(* Requests and responses *)

\* JSON-RPC error codes the handlers use.
MethodNotFound == -32601

InvalidParams == -32602

InternalError == -32603

\* The default of the history limit.
DefaultLimit == 10

S(word) == StrV(<<word>>)

\* A request. body, params and arguments say what the JSON holds there: an
\* "object", something that is not one ("null", "array"), nothing ("absent"),
\* or text that does not parse ("invalid"). A key that is not present holds
\* AbsentV.
Request(server, route, body, method, id, params, name, arguments, a, b, limit) ==
    [server |-> server, route |-> route, body |-> body, method |-> method, id |-> id,
     params |-> params, name |-> name, arguments |-> arguments, a |-> a, b |-> b,
     limit |-> limit, database |-> AbsentV, cube |-> AbsentV, coordinates |-> AbsentV,
     value |-> AbsentV, coordinates_list |-> AbsentV]

NoRequest ==
    Request("none", "none", "absent", AbsentV, AbsentV, "absent", AbsentV, "absent",
            AbsentV, AbsentV, AbsentV)

\* A response. kind: "result" / "error" (a JSON-RPC envelope), "rest" /
\* "rest_error" (a direct endpoint's body), "unhandled" (the exception left
\* the handler: the framework answers 500 with no body of the program's).
NoResponse ==
    [status |-> 0, kind |-> "none", code |-> 0, message |-> <<>>, id |-> AbsentV,
     text |-> <<>>, tools |-> <<>>, history |-> <<>>, count |-> 0,
     operation |-> "", a |-> AbsentV, b |-> AbsentV, result |-> AbsentV]

McpText(id, text) ==
    [NoResponse EXCEPT !.status = 200, !.kind = "result", !.id = id, !.text = text]

\* McpTools were the registry listed last tool first.
McpToolsLastFirst(id, registry) ==
    [NoResponse EXCEPT !.status = 200, !.kind = "result", !.id = id,
                       !.tools = Reversed(registry)]

McpTools(id, registry) ==
    [NoResponse EXCEPT !.status = 200, !.kind = "result", !.id = id, !.tools = registry]

McpError(status, code, message, id) ==
    [NoResponse EXCEPT !.status = status, !.kind = "error", !.code = code,
                       !.message = message, !.id = id]

Unhandled == [NoResponse EXCEPT !.status = 500, !.kind = "unhandled"]

RestResult(operation, a, b, result) ==
    [NoResponse EXCEPT !.status = 200, !.kind = "rest", !.operation = operation,
                       !.a = a, !.b = b, !.result = result]

RestError(message) ==
    [NoResponse EXCEPT !.status = 400, !.kind = "rest_error", !.message = message]

RestHistory(history) ==
    [NoResponse EXCEPT !.status = 200, !.kind = "rest", !.history = history,
                       !.count = Len(history)]

Reply(resp, st) == [resp |-> resp, st |-> st]

\* str(e) of the AttributeError a .get on something that is no dict raises.
NoGet(shape) ==
    <<"'", IF shape = "array" THEN "list" ELSE "NoneType",
      "' object has no attribute 'get'">>

----------------------------------------------------------------------------
(* src/server.py: the calculator server *)

\* The tool registry: name and the schema's "required" list.
calc_tools ==
    << [name |-> "plus", required |-> <<"a", "b">>],
       [name |-> "sub", required |-> <<"a", "b">>],
       [name |-> "mul", required |-> <<"a", "b">>],
       [name |-> "div", required |-> <<"a", "b">>],
       [name |-> "history", required |-> <<>>] >>

ArithOps == {"plus", "sub", "mul", "div"}

Label(op) ==
    CASE op = "plus" -> "Addition" [] op = "sub" -> "Subtraction"
      [] op = "mul" -> "Multiplication" [] OTHER -> "Division"

Symbol(op) ==
    CASE op = "plus" -> "+" [] op = "sub" -> "-" [] op = "mul" -> "*" [] OTHER -> "/"

\* Compute were sub and div to take their operands the other way round.
ComputeCommuted(op, a, b) ==
    CASE op = "plus" -> PyAdd(a, b) [] op = "sub" -> PySub(b, a)
      [] op = "mul" -> PyMul(a, b) [] OTHER -> PyDiv(b, a)

\* result = a + b, a - b, a * b, a / b
Compute(op, a, b) ==
    CASE op = "plus" -> PyAdd(a, b) [] op = "sub" -> PySub(a, b)
      [] op = "mul" -> PyMul(a, b) [] OTHER -> PyDiv(a, b)

\* MissingOperand with "and" for "or": one missing operand passes.
MissingBoth(a, b) == IsNone(a) /\ IsNone(b)

\* a is None or b is None
MissingOperand(a, b) == IsNone(a) \/ IsNone(b)

MissingParams == <<"Missing required parameters: a and b">>

DivByZero == <<"Division by zero", " is not allowed">>

\* The line of the history text for one entry.
HistoryLine(h) ==
    Str(h.id) \o <<". ">> \o h.operation \o <<": ">> \o Str(h.operand_a) \o <<" and ">>
        \o Str(h.operand_b) \o <<" = ">> \o Str(h.result) \o <<" (">> \o h.timestamp
        \o <<")">>

RECURSIVE JoinLines(_)
JoinLines(q) ==
    IF q = <<>> THEN <<>>
    ELSE IF Len(q) = 1 THEN q[1]
    ELSE q[1] \o <<"\n">> \o JoinLines(Tail(q))

HistoryText(limit, history) ==
    IF history = <<>> THEN <<"No calculation history found">>
    ELSE <<"Calculation History (last ">> \o Str(limit) \o <<"):\n">>
            \o JoinLines([i \in 1..Len(history) |-> HistoryLine(history[i])])

\* calc_except were it to answer with a fixed message, not str(e).
calc_except_fixed(r, message, st) ==
    IF r.body = "invalid"
    THEN [resp |-> McpError(500, InternalError, <<"Internal error">>, NoneV), st |-> st]
    ELSE IF r.body # "object" THEN [resp |-> Unhandled, st |-> st]
    ELSE [resp |-> McpError(500, InternalError, <<"Internal error">>, Get(r.id)), st |-> st]

\* The except block of handle_mcp: the id is read from data again.
calc_except(r, message, st) ==
    IF r.body = "invalid" THEN Reply(McpError(500, InternalError, message, NoneV), st)
    ELSE IF r.body # "object" THEN Reply(Unhandled, st)
    ELSE Reply(McpError(500, InternalError, message, Get(r.id)), st)

\* The branch of a math tool in handle_mcp, after a and b were validated.
calc_mcp_arith(r, op, a, b, request_id, st, io) ==
    IF op = "div" /\ EqZero(b)
    THEN Reply(McpError(400, InternalError, DivByZero, request_id), st)
    ELSE LET result == Compute(op, a, b)
         IN  IF ~result.ok THEN calc_except(r, result.err, st)
             ELSE Reply(McpText(request_id,
                                <<Label(op), ": ">> \o Str(a) \o <<" ", Symbol(op), " ">>
                                    \o Str(b) \o <<" = ">> \o Str(result.v)),
                        save_calculation(st, io, op, a, b, result.v))

\* The "history" branch of handle_mcp.
calc_mcp_history(r, request_id, st, io) ==
    LET limit == GetDefault(r.limit, IntV(DefaultLimit))
        got   == get_calculation_history(st, io, limit)
    IN  Reply(McpText(request_id, HistoryText(limit, got.history)), got.st)

\* The "tools/call" branch of handle_mcp.
calc_tools_call(r, request_id, st, io) ==
    IF r.params # "object" /\ r.params # "absent" THEN calc_except(r, NoGet(r.params), st)
    ELSE IF r.arguments # "object" /\ r.arguments # "absent"
    THEN calc_except(r, NoGet(r.arguments), st)
    ELSE LET tool_name == Get(r.name)
             a         == Get(r.a)
             b         == Get(r.b)
         IN  IF MissingOperand(a, b)
             THEN Reply(McpError(400, InvalidParams, MissingParams, request_id), st)
             ELSE IF \E op \in ArithOps : tool_name = S(op)
             THEN calc_mcp_arith(r, CHOOSE op \in ArithOps : tool_name = S(op),
                                 a, b, request_id, st, io)
             ELSE IF tool_name = S("history") THEN calc_mcp_history(r, request_id, st, io)
             ELSE Reply(McpError(400, MethodNotFound,
                                 <<"Unknown tool: ">> \o Str(tool_name), request_id), st)

\* POST /mcp of the calculator server.
calc_handle_mcp(r, st, io) ==
    IF r.body = "invalid" THEN calc_except(r, <<"Expecting value">>, st)
    ELSE IF r.body # "object" THEN calc_except(r, NoGet(r.body), st)
    ELSE LET method     == Get(r.method)
             request_id == Get(r.id)
         IN  IF method = S("tools/list")
             THEN Reply(McpTools(request_id, calc_tools), st)
             ELSE IF method = S("tools/call") THEN calc_tools_call(r, request_id, st, io)
             ELSE Reply(McpError(400, MethodNotFound,
                                 <<"Method not found: ">> \o Str(method), request_id), st)

\* Whether the response body holding v is rendered: JSONResponse renders with
\* json.dumps(allow_nan=False), which raises ValueError on inf, -inf and nan.
JsonCompliant(v) == ~(v.k = "float" /\ v.d = 0)

\* POST /plus, /sub, /mul, /div. The dict an endpoint returns is rendered after
\* the endpoint has run, the entry saved.
calc_endpoint(r, op, st, io) ==
    IF r.body # "object" THEN Reply(Unhandled, st)
    ELSE LET a == Get(r.a)
             b == Get(r.b)
         IN  IF MissingOperand(a, b) THEN Reply(RestError(MissingParams), st)
             ELSE IF op = "div" /\ EqZero(b)
             THEN IF ~JsonCompliant(a) THEN Reply(Unhandled, st)
                  ELSE Reply([RestError(DivByZero) EXCEPT !.operation = "div", !.a = a,
                                                          !.b = b],
                             st)
             ELSE LET result == Compute(op, a, b)
                  IN  IF ~result.ok THEN Reply(Unhandled, st)
                      ELSE IF ~(JsonCompliant(a) /\ JsonCompliant(b)
                                    /\ JsonCompliant(result.v))
                      THEN Reply(Unhandled, save_calculation(st, io, op, a, b, result.v))
                      ELSE Reply(RestResult(op, a, b, result.v),
                                 save_calculation(st, io, op, a, b, result.v))

\* The response to GET /history once get_calculation_history has returned got:
\* the dict {"history": history} is rendered like any other body.
HistoryResponse(got) ==
    IF \A i \in 1..Len(got.history) :
          /\ JsonCompliant(got.history[i].operand_a)
          /\ JsonCompliant(got.history[i].operand_b)
          /\ JsonCompliant(got.history[i].result)
    THEN Reply(RestHistory(got.history), got.st)
    ELSE Reply(Unhandled, got.st)

\* GET /history?limit=N
history_endpoint(r, st, io) ==
    HistoryResponse(get_calculation_history(st, io, GetDefault(r.limit, IntV(DefaultLimit))))

RouteOp(route) ==
    CASE route = "/plus" -> "plus" [] route = "/sub" -> "sub"
      [] route = "/mul" -> "mul" [] OTHER -> "div"

\* The calculator server's routing.
calc_serve(r, st, io) ==
    CASE r.route = "/mcp" -> calc_handle_mcp(r, st, io)
      [] r.route = "/history" -> history_endpoint(r, st, io)
      [] OTHER -> calc_endpoint(r, RouteOp(r.route), st, io)

----------------------------------------------------------------------------
(* src/jedox_server.py: the Jedox gateway server *)

\* The tool registry: name and the schema's "required" list.
jedox_tools ==
    << [name |-> "jedox_list_databases", required |-> <<>>],
       [name |-> "jedox_list_cubes", required |-> <<"database">>],
       [name |-> "jedox_list_dimensions", required |-> <<"database">>],
       [name |-> "jedox_read_cell", required |-> <<"database", "cube", "coordinates">>],
       [name |-> "jedox_write_cell",
        required |-> <<"database", "cube", "coordinates", "value">>],
       [name |-> "jedox_read_range",
        required |-> <<"database", "cube", "coordinates_list">>] >>

\* What the remote service does with the one call a request makes: it fails
\* (transport, HTTP status: requests raises, str(e) is err) or answers with
\* items (databases, cubes, dimensions, cells: name, id, value).
GatewayFails(err) == [fails |-> TRUE, err |-> err, items |-> <<>>]

GatewayAnswers(items) == [fails |-> FALSE, err |-> <<>>, items |-> items]

\* No call was made.
NoGateway == [fails |-> FALSE, err |-> <<"no call">>, items |-> <<>>]

\* list_databases(), list_cubes(database), list_dimensions(database),
\* read_jedox_range(...): the list, or [] when the call raised.
list_call(gw) == IF gw.fails THEN <<>> ELSE gw.items

\* read_jedox_cell: the first cell's value, None without cells, or
\* {"error": str(e)}.
read_jedox_cell(gw) ==
    IF gw.fails THEN [error |-> TRUE, err |-> gw.err, value |-> NoneV]
    ELSE IF gw.items = <<>> THEN [error |-> FALSE, err |-> <<>>, value |-> NoneV]
    ELSE [error |-> FALSE, err |-> <<>>, value |-> gw.items[1].value]

\* write_jedox_cell: {"status": "success", "message": ...} or
\* {"status": "error", "error": str(e)}.
write_jedox_cell(gw, coordinates, value) ==
    IF gw.fails THEN [status |-> "error", text |-> gw.err]
    ELSE [status |-> "success",
          text |-> <<"Successfully wrote ">> \o Str(value) \o <<" to cell ">>
                      \o Str(coordinates)]

RECURSIVE ItemLines(_, _)
ItemLines(items, withId) ==
    IF items = <<>> THEN <<>>
    ELSE <<"- ">> \o Str(items[1].name)
            \o (IF withId THEN <<" (ID: ">> \o Str(items[1].id) \o <<")">> ELSE <<>>)
            \o <<"\n">> \o ItemLines(Tail(items), withId)

RECURSIVE CellLines(_)
CellLines(cells) ==
    IF cells = <<>> THEN <<>>
    ELSE <<"- ">> \o Str(cells[1].coordinates) \o <<": ">> \o Str(cells[1].value)
            \o <<"\n">> \o CellLines(Tail(cells))

JedoxToolNames == {jedox_tools[i].name : i \in 1..Len(jedox_tools)}

\* The text a tool's branch of handle_mcp returns.
jedox_tool_text(tool, r, gw) ==
    LET database    == Get(r.database)
        coordinates == Get(r.coordinates)
    IN  CASE tool = "jedox_list_databases" ->
                <<"Available Jedox Databases:\n">> \o ItemLines(list_call(gw), TRUE)
          [] tool = "jedox_list_cubes" ->
                <<"Cubes in database '">> \o Str(database) \o <<"':\n">>
                    \o ItemLines(list_call(gw), TRUE)
          [] tool = "jedox_list_dimensions" ->
                <<"Dimensions in database '">> \o Str(database) \o <<"':\n">>
                    \o ItemLines(list_call(gw), FALSE)
          [] tool = "jedox_read_cell" ->
                LET cell_value == read_jedox_cell(gw)
                IN  IF cell_value.error THEN <<"Error: ">> \o cell_value.err
                    ELSE <<"Cell value at ">> \o Str(coordinates) \o <<":\n">>
                            \o Str(cell_value.value)
          [] tool = "jedox_write_cell" ->
                LET result == write_jedox_cell(gw, coordinates, Get(r.value))
                IN  IF result.status = "success" THEN <<"Success: ">> \o result.text
                    ELSE <<"Error: ">> \o result.text
          [] OTHER ->
                <<"Read ">> \o IntStr(Len(list_call(gw))) \o <<" cells:\n">>
                    \o CellLines(list_call(gw))

\* Every tool's branch but jedox_list_databases reads its arguments with
\* arguments.get.
ReadsArguments(r) == Get(r.name) # S("jedox_list_databases")

\* The except block of handle_mcp: the id is always 1.
jedox_except(message) == McpError(200, InternalError, message, IntV(1))

\* The "tools/call" branch of handle_mcp.
jedox_tools_call(r, request_id, gw) ==
    IF r.params # "object" /\ r.params # "absent" THEN jedox_except(NoGet(r.params))
    ELSE LET tool_name == Get(r.name)
         IN  IF ~\E t \in JedoxToolNames : tool_name = S(t)
             THEN McpError(200, MethodNotFound,
                           <<"Tool '">> \o Str(tool_name) \o <<"' not found">>, request_id)
             ELSE IF ReadsArguments(r) /\ r.arguments # "object" /\ r.arguments # "absent"
             THEN jedox_except(NoGet(r.arguments))
             ELSE McpText(request_id,
                          jedox_tool_text(CHOOSE t \in JedoxToolNames : tool_name = S(t),
                                          r, gw))

\* POST /mcp of the Jedox server.
jedox_handle_mcp(r, gw) ==
    IF r.body = "invalid" THEN jedox_except(<<"Expecting value">>)
    ELSE IF r.body # "object" THEN jedox_except(NoGet(r.body))
    ELSE LET method     == Get(r.method)
             request_id == GetDefault(r.id, IntV(1))
         IN  IF method = S("tools/list") THEN McpTools(request_id, jedox_tools)
             ELSE IF method = S("tools/call") THEN jedox_tools_call(r, request_id, gw)
             ELSE McpError(200, MethodNotFound,
                           <<"Method '">> \o Str(method) \o <<"' not found">>, request_id)

\* Whether handling r calls the remote service.
CallsGateway(r) ==
    /\ r.server = "jedox" /\ r.body = "object" /\ Get(r.method) = S("tools/call")
    /\ r.params \in {"object", "absent"}
    /\ \E t \in JedoxToolNames : Get(r.name) = S(t)
    /\ (ReadsArguments(r) => r.arguments \in {"object", "absent"})

----------------------------------------------------------------------------
(* The servers: requests in flight *)

\* The clients whose requests may be in flight at once.
Clients == {"c1", "c2"}

\* The most entries the ledger grows to.
MaxRows == 3

\* The ledger's entries (the lines after the header).
Rows(st) == IF st.lines = <<>> THEN <<>> ELSE Tail(st.lines)

\* The id of the entry handling a request appended, 0 when it appended none.
Wrote(before, after) ==
    IF Len(Rows(after)) > Len(Rows(before))
    THEN ParseInt(Rows(after)[Len(Rows(after))][1]).v.n
    ELSE 0

\* StoreRead were the handler to work on the file as it was when the request
\* arrived (a handler suspended between reading the last id and appending).
StoreReadStale(c) == sess[c].seen

\* The ledger file the handler of client c's request reads and writes: the file
\* as it is when the handler runs.
StoreRead(c) == store

\* faulted: the client's request before this one was answered with an internal
\* error (code -32603). io: the file could be opened when the handler ran.
Idle ==
    [st |-> "idle", req |-> NoRequest, resp |-> NoResponse, gw |-> NoGateway,
     wrote |-> 0, conc |-> {}, seen |-> NoFile, faulted |-> FALSE, io |-> TRUE]

\* A server's handler for r, run to completion.
Serve(r, st, io, gw) ==
    IF r.server = "jedox" THEN Reply(jedox_handle_mcp(r, gw), st)
    ELSE calc_serve(r, st, io)

\* What the remote service may do with a call.
GatewayReplies ==
    { GatewayFails(<<"401 Client Error: Unauthorized">>),
      GatewayAnswers(<<>>),
      GatewayAnswers(<< [name |-> S("Sales"), id |-> IntV(3), value |-> IntV(42),
                         coordinates |-> ListV(<< <<"2024">>, <<"Revenue">> >>)] >>) }

\* The server has read the body of client c's request r (await request.json()):
\* the handler is about to run. seen records the ledger at that moment, conc
\* collects the clients whose request is in flight at the same time.
Receive(c, r) ==
    /\ sess[c].st # "recv"
    /\ sess' = [d \in Clients |->
                  IF d = c
                  THEN [Idle EXCEPT !.st = "recv", !.req = r, !.seen = store,
                                    !.faulted = (sess[c].resp.code = InternalError),
                                    !.conc = {e \in Clients \ {c} : sess[e].st = "recv"}]
                  ELSE IF sess[d].st = "recv"
                  THEN [sess[d] EXCEPT !.conc = @ \cup {c}]
                  ELSE [sess[d] EXCEPT !.conc = @ \ {c}]]
    /\ UNCHANGED <<store, diskOk>>

\* The handler of client c's request runs: it holds no await, so it runs to its
\* response without another handler running in between.
Process(c) ==
    /\ sess[c].st = "recv"
    /\ \E gw \in (IF CallsGateway(sess[c].req) THEN GatewayReplies ELSE {NoGateway}) :
          LET out == Serve(sess[c].req, StoreRead(c), diskOk, gw)
          IN  /\ Len(Rows(out.st)) <= MaxRows
              /\ store' = out.st
              /\ sess' = [sess EXCEPT ![c] = [@ EXCEPT !.st = "done", !.resp = out.resp,
                                                       !.gw = gw, !.io = diskOk,
                                                       !.wrote = Wrote(StoreRead(c), out.st)]]
    /\ UNCHANGED diskOk

Init ==
    /\ store \in {NoFile, EmptyLedger}
    /\ diskOk = TRUE
    /\ sess = [c \in Clients |-> Idle]

----------------------------------------------------------------------------
(* The requests the clients send *)

X == StrV(<<"x">>)

\* POST /mcp {"method": "tools/call", "params": {"name": ..., "arguments": {...}}, "id": ...}
ToolsCall(server, id, name, a, b, limit) ==
    Request(server, "/mcp", "object", S("tools/call"), id, "object", name, "object",
            a, b, limit)

\* POST /mcp with another method (or none) and no params.
McpMethod(server, id, method) ==
    Request(server, "/mcp", "object", method, id, "absent", AbsentV, "absent",
            AbsentV, AbsentV, AbsentV)

\* POST /plus, /sub, /mul, /div {"a": ..., "b": ...}
Post(route, a, b) ==
    Request("calc", route, "object", AbsentV, AbsentV, "absent", AbsentV, "absent",
            a, b, AbsentV)

\* GET /history?limit=N
GetHistory(limit) ==
    Request("calc", "/history", "absent", AbsentV, AbsentV, "absent", AbsentV, "absent",
            AbsentV, AbsentV, limit)

\* The operands of the arithmetic calls: both given, or one or both missing.
OperandPairs ==
    { <<IntV(1), IntV(2)>>, <<AbsentV, IntV(2)>>, <<IntV(1), AbsentV>>,
      <<AbsentV, AbsentV>> }

\* Operands with a divisor equal to 0 (0, 0.0, false).
ZeroPairs == { <<IntV(2), IntV(0)>>, <<X, FloatV(0, 1)>>, <<FloatV(1, 2), BoolV(FALSE)>> }

\* Operands that are not numbers.
TextPairs == { <<X, X>> }

\* Operation and operands of the arithmetic calls sent.
ArithCalls ==
    (ArithOps \X OperandPairs) \cup ({"div"} \X ZeroPairs)
        \cup ({"plus", "sub"} \X TextPairs)

Ids == {IntV(7), AbsentV, S("req-1")}

Limits == {AbsentV, IntV(0), IntV(1), IntV(2), IntV(3)}

CalcMcpRequests ==
    {ToolsCall("calc", IntV(7), S(c[1]), c[2][1], c[2][2], AbsentV) : c \in ArithCalls}
      \cup {ToolsCall("calc", id, S("plus"), IntV(1), IntV(2), AbsentV) : id \in Ids}
      \cup {ToolsCall("calc", IntV(7), S(t), p[1], p[2], AbsentV) :
                t \in {"history", "unknown_tool"}, p \in OperandPairs}
      \cup {ToolsCall("calc", IntV(7), S("history"), AbsentV, AbsentV, l) : l \in Limits}
      \cup {ToolsCall("calc", IntV(7), S("history"), IntV(1), IntV(2), l) :
                l \in {IntV(0), IntV(2)}}
      \cup {ToolsCall("calc", IntV(7), AbsentV, AbsentV, AbsentV, AbsentV)}
      \cup {McpMethod("calc", id, S("tools/list")) : id \in Ids}
      \cup {McpMethod("calc", IntV(7), m) : m \in {S("ping"), AbsentV}}
      \cup {[McpMethod("calc", AbsentV, AbsentV) EXCEPT !.body = shape] :
                shape \in {"invalid", "array"}}
      \cup {[McpMethod("calc", IntV(7), S("tools/call")) EXCEPT !.params = "null"],
            [ToolsCall("calc", IntV(7), S("plus"), AbsentV, AbsentV, AbsentV)
                EXCEPT !.arguments = "null"]}

CalcRestRequests ==
    {Post("/" \o c[1], c[2][1], c[2][2]) : c \in ArithCalls}
      \cup {[Post("/plus", AbsentV, AbsentV) EXCEPT !.body = "array"]}
      \cup {GetHistory(l) : l \in Limits}

CalcRequests == CalcMcpRequests \cup CalcRestRequests

----------------------------------------------------------------------------
(* Specifications *)

\* The calculator server, one request at a time.
Next ==
    \/ \E r \in CalcRequests : Receive("c1", r)
    \/ Process("c1")

Spec == Init /\ [][Next]_vars

\* Two clients of the calculator server, their requests in flight together.
ConcRequests ==
    { Post("/plus", IntV(1), IntV(2)),
      Post("/mul", IntV(1), IntV(2)),
      Post("/plus", IntV(1), AbsentV),
      ToolsCall("calc", IntV(7), S("plus"), IntV(1), IntV(2), AbsentV),
      McpMethod("calc", IntV(7), S("tools/list")),
      GetHistory(IntV(1)) }

NextConc ==
    \E c \in Clients :
        \/ \E r \in ConcRequests : Receive(c, r)
        \/ Process(c)

SpecConc == Init /\ [][NextConc]_vars

\* POST /mcp of the Jedox server: tools/call with the arguments given.
JedoxCall(id, name, database, cube, coordinates, value) ==
    [ToolsCall("jedox", id, name, AbsentV, AbsentV, AbsentV)
        EXCEPT !.database = database, !.cube = cube, !.coordinates = coordinates,
               !.value = value, !.coordinates_list = coordinates]

Coordinates == ListV(<< <<"2024">>, <<"Revenue">> >>)

JedoxRequests ==
    {JedoxCall(id, S(t), S("Demo"), S("Sales"), Coordinates, IntV(5)) :
        id \in Ids, t \in JedoxToolNames \cup {"unknown_tool"}}
      \cup {JedoxCall(IntV(7), S(t), AbsentV, AbsentV, AbsentV, AbsentV) :
                t \in JedoxToolNames \cup {"unknown_tool"}}
      \cup {[JedoxCall(IntV(7), S(t), AbsentV, AbsentV, AbsentV, AbsentV)
                EXCEPT !.arguments = "null"] :
                t \in {"jedox_list_databases", "jedox_list_cubes", "unknown_tool"}}
      \cup {McpMethod("jedox", id, S("tools/list")) : id \in Ids \cup {NoneV}}
      \cup {McpMethod("jedox", IntV(7), m) : m \in {S("ping"), AbsentV}}
      \cup {[McpMethod("jedox", AbsentV, AbsentV) EXCEPT !.body = shape] :
                shape \in {"invalid", "array"}}
      \cup {[McpMethod("jedox", IntV(7), S("tools/call")) EXCEPT !.params = "null"]}

\* The Jedox server, one request at a time.
NextJedox ==
    \/ \E r \in JedoxRequests : Receive("c1", r)
    \/ Process("c1")

SpecJedox == Init /\ [][NextJedox]_vars

----------------------------------------------------------------------------
(* Properties *)

Done(c) == sess[c].st = "done"

\* r is a tools/call of a math tool sent to the calculator's POST /mcp.
McpArith(r) ==
    /\ r.server = "calc" /\ r.route = "/mcp" /\ r.body = "object"
    /\ r.method = S("tools/call") /\ r.params = "object"
    /\ r.arguments \in {"object", "absent"}
    /\ \E op \in ArithOps : r.name = S(op)

\* r is a request to POST /plus, /sub, /mul or /div carrying a JSON object.
RestArith(r) ==
    /\ r.server = "calc" /\ r.body = "object"
    /\ r.route \in {"/plus", "/sub", "/mul", "/div"}

Arith(r) == McpArith(r) \/ RestArith(r)

OpOf(r) ==
    IF r.route = "/mcp" THEN CHOOSE op \in ArithOps : r.name = S(op)
    ELSE CHOOSE op \in ArithOps : r.route = "/" \o op

Succeeded(resp) == resp.status = 200 /\ resp.kind \in {"result", "rest"}

RowId(row) == ParseInt(row[1]).v.n

RECURSIVE MaxId(_)
MaxId(rows) ==
    IF rows = <<>> THEN 0
    ELSE LET m == MaxId(Tail(rows))
         IN  IF RowId(rows[1]) > m THEN RowId(rows[1]) ELSE m

Contains(text, part) ==
    \E i \in 1..(Len(text) + 1 - Len(part)) : SubSeq(text, i, i + Len(part) - 1) = part

\* C1: starting from a missing or empty ledger, every successful arithmetic
\* call (POST /mcp tools/call or a direct endpoint) appends exactly one entry
\* to the ledger it found, and the entry's id is max(existing ids) + 1 (1 for
\* an empty ledger): greater than every earlier id, so that no id is used twice.
C1_AppendsNextId ==
    /\ \A c \in Clients :
          (Done(c) /\ Arith(sess[c].req) /\ Succeeded(sess[c].resp)) =>
              LET before == Rows(sess[c].seen)
                  after  == Rows(store)
              IN  /\ Len(after) = Len(before) + 1
                  /\ SubSeq(after, 1, Len(before)) = before
                  /\ RowId(after[Len(after)]) = MaxId(before) + 1
                  /\ \A i \in 1..Len(before) : RowId(before[i]) < RowId(after[Len(after)])
    /\ \A i, j \in 1..Len(Rows(store)) :
          i # j => RowId(Rows(store)[i]) # RowId(Rows(store)[j])

\* C1's case: a successful arithmetic call wrote the third entry.
C1_Witness ==
    /\ Done("c1") /\ Arith(sess["c1"].req) /\ Succeeded(sess["c1"].resp)
    /\ Len(Rows(sess["c1"].seen)) = 2 /\ sess["c1"].wrote = 3

\* C2: when two arithmetic requests are in flight together, the two handlers
\* never compute the same id: both entries are in the ledger, and their ids are
\* distinct and consecutive.
C2_ConcurrentIdsDistinct ==
    \A c, d \in Clients :
        (c # d /\ Done(c) /\ Done(d) /\ d \in sess[c].conc
            /\ Arith(sess[c].req) /\ Succeeded(sess[c].resp)
            /\ Arith(sess[d].req) /\ Succeeded(sess[d].resp)) =>
                /\ sess[c].wrote # 0 /\ sess[d].wrote # 0
                /\ sess[c].wrote # sess[d].wrote
                /\ Abs(sess[c].wrote - sess[d].wrote) = 1
                /\ \E i, j \in 1..Len(Rows(store)) :
                      /\ i # j
                      /\ RowId(Rows(store)[i]) = sess[c].wrote
                      /\ RowId(Rows(store)[j]) = sess[d].wrote

\* C2's case: two plus calls were in flight together and both were answered.
C2_Witness ==
    /\ Done("c1") /\ Done("c2") /\ "c2" \in sess["c1"].conc
    /\ sess["c1"].req = Post("/plus", IntV(1), IntV(2))
    /\ sess["c2"].req = ToolsCall("calc", IntV(7), S("plus"), IntV(1), IntV(2), AbsentV)
    /\ sess["c1"].wrote = 2 /\ sess["c2"].wrote = 1

\* r is GET /history.
HistoryGet(r) == r.server = "calc" /\ r.route = "/history"

\* r is a tools/call sent to POST /mcp whose params and arguments are objects
\* (arguments may be left out).
WellFormedCall(r) ==
    /\ r.route = "/mcp" /\ r.body = "object" /\ r.method = S("tools/call")
    /\ r.params = "object" /\ r.arguments \in {"object", "absent"}

LimitOf(r) == IF r.limit.k = "absent" THEN IntV(DefaultLimit) ELSE r.limit

Lacks(v) == v.k \in {"absent", "none"}

NumericRow(row) == ParseFloat(row[3]).ok /\ ParseFloat(row[4]).ok /\ ParseFloat(row[5]).ok

Min(x, y) == IF x < y THEN x ELSE y

\* C3: get_calculation_history(0) returns an empty sequence for every ledger,
\* a ledger with entries included (GET /history?limit=0, and the history tool
\* with limit 0).
C3_LimitZeroEmpty ==
    \A c \in Clients :
        /\ (Done(c) /\ HistoryGet(sess[c].req) /\ sess[c].req.limit = IntV(0)) =>
              (sess[c].resp.history = <<>> /\ sess[c].resp.count = 0)
        /\ (Done(c) /\ WellFormedCall(sess[c].req) /\ sess[c].req.server = "calc"
              /\ sess[c].req.name = S("history") /\ sess[c].req.limit = IntV(0)
              /\ sess[c].resp.kind = "result") =>
              sess[c].resp.text = <<"No calculation history found">>

\* C4: for a ledger of n numeric entries and a limit N >= 1,
\* get_calculation_history(N) returns exactly min(N, n) entries: the min(N, n)
\* entries appended last, the newest first (ids strictly decreasing); it
\* returns the whole ledger when N >= n.
C4_RecentNewestFirst ==
    \A c \in Clients :
        LET r    == sess[c].req
            rows == Rows(store)
            n    == Len(rows)
            h    == sess[c].resp.history
        IN  (Done(c) /\ HistoryGet(r) /\ LimitOf(r).k = "int" /\ LimitOf(r).n >= 1
                /\ \A i \in 1..n : NumericRow(rows[i])) =>
                /\ Len(h) = Min(LimitOf(r).n, n)
                /\ sess[c].resp.count = Min(LimitOf(r).n, n)
                /\ (LimitOf(r).n >= n => Len(h) = n)
                /\ \A i \in 1..Len(h) :
                      /\ h[i].id = IntV(RowId(rows[n + 1 - i]))
                      /\ h[i].operation = rows[n + 1 - i][2]
                      /\ h[i].operand_a = ParseFloat(rows[n + 1 - i][3]).v
                      /\ h[i].operand_b = ParseFloat(rows[n + 1 - i][4]).v
                      /\ h[i].result = ParseFloat(rows[n + 1 - i][5]).v
                /\ \A i \in 1..(Len(h) - 1) : h[i].id.n > h[i + 1].id.n

\* C4's case: limit 2 on a ledger of three numeric entries returned the two
\* newest.
C4_Witness ==
    /\ Done("c1") /\ sess["c1"].req = GetHistory(IntV(2))
    /\ Len(Rows(store)) = 3 /\ \A i \in 1..3 : NumericRow(Rows(store)[i])
    /\ Len(sess["c1"].resp.history) = 2
    /\ sess["c1"].resp.history[1].id = IntV(3)

\* C5: a tools/call of the tool "history" whose arguments hold only "limit"
\* (or nothing), no "a" and no "b", is answered with a success envelope
\* (HTTP 200, result populated), not with an error envelope.
C5_HistoryToolSucceeds ==
    \A c \in Clients :
        (Done(c) /\ WellFormedCall(sess[c].req) /\ sess[c].req.server = "calc"
            /\ sess[c].req.name = S("history")
            /\ sess[c].req.a = AbsentV /\ sess[c].req.b = AbsentV) =>
            (sess[c].resp.kind = "result" /\ sess[c].resp.status = 200)

Registered(server, name) ==
    IF server = "jedox" THEN \E t \in JedoxToolNames : name = S(t)
    ELSE \E i \in 1..Len(calc_tools) : name = S(calc_tools[i].name)

\* C6: a tools/call whose name is no registered tool is answered, whatever its
\* arguments are (with or without "a" and "b"), with an error envelope of code
\* -32601 whose message holds the name.
C6_UnknownToolNotFound ==
    \A c \in Clients :
        (Done(c) /\ WellFormedCall(sess[c].req) /\ sess[c].req.name.k = "str"
            /\ ~Registered(sess[c].req.server, sess[c].req.name)) =>
            /\ sess[c].resp.kind = "error"
            /\ sess[c].resp.code = MethodNotFound
            /\ Contains(sess[c].resp.message, Str(sess[c].req.name))

\* C7: an arithmetic call (plus, sub, mul, div; POST /mcp or the direct
\* endpoint) that lacks "a" or "b" is rejected with a validation error (code
\* -32602 on /mcp, HTTP 400 on both paths) and leaves the ledger as it was.
C7_MissingOperandRejected ==
    \A c \in Clients :
        LET r == sess[c].req
        IN  (Done(c) /\ Arith(r) /\ (Lacks(r.a) \/ Lacks(r.b))) =>
                /\ sess[c].resp.status = 400
                /\ McpArith(r) =>
                      (sess[c].resp.kind = "error" /\ sess[c].resp.code = InvalidParams)
                /\ RestArith(r) => sess[c].resp.kind = "rest_error"
                /\ store = sess[c].seen
                /\ sess[c].wrote = 0

\* C7's case: a call without "a" was rejected on a ledger that holds entries.
C7_Witness ==
    /\ Done("c1") /\ McpArith(sess["c1"].req)
    /\ sess["c1"].req.a = AbsentV /\ sess["c1"].req.b = IntV(2)
    /\ sess["c1"].resp.code = InvalidParams
    /\ Len(Rows(store)) = 2

ZeroDivisor(v) == v.k \in {"int", "float", "bool"} /\ v.n = 0 /\ v.d = 1

DivCall(r) == Arith(r) /\ OpOf(r) = "div"

C9_IdEchoed ==
    \A c \in Clients :
        (Done(c) /\ sess[c].req.route = "/mcp" /\ sess[c].req.body = "object"
            /\ sess[c].req.id.k # "absent") =>
            (sess[c].resp.kind \in {"result", "error"} /\ sess[c].resp.id = sess[c].req.id)

\* C10: a body sent to the calculator's POST /mcp that is structurally invalid
\* (it does not parse, or it is JSON but no object) is answered with an error
\* envelope of code -32603; no exception leaves handle_mcp.
C10_InvalidBodyInternalError ==
    \A c \in Clients :
        (Done(c) /\ sess[c].req.server = "calc" /\ sess[c].req.route = "/mcp"
            /\ sess[c].req.body \in {"invalid", "array"}) =>
            (sess[c].resp.kind = "error" /\ sess[c].resp.code = InternalError)

----------------------------------------------------------------------------
(* Exceptions in tools/call, and the request after *)

\* tools/call requests that raise in handle_mcp (operands the operation does not
\* take, params or arguments that are null), and well-formed requests.
FaultRequests ==
    { ToolsCall("calc", IntV(7), S("sub"), X, X, AbsentV),
      ToolsCall("calc", S("req-1"), S("mul"), X, FloatV(1, 2), AbsentV),
      ToolsCall("calc", IntV(7), S("plus"), X, IntV(1), AbsentV),
      ToolsCall("calc", IntV(7), S("div"), IntV(1), X, AbsentV),
      [McpMethod("calc", IntV(7), S("tools/call")) EXCEPT !.params = "null"],
      [ToolsCall("calc", IntV(7), S("history"), AbsentV, AbsentV, AbsentV)
          EXCEPT !.arguments = "null"],
      ToolsCall("calc", IntV(7), S("plus"), IntV(1), IntV(2), AbsentV),
      McpMethod("calc", IntV(7), S("tools/list")),
      [McpMethod("jedox", IntV(7), S("tools/call")) EXCEPT !.params = "null"],
      [JedoxCall(IntV(7), S("jedox_list_cubes"), AbsentV, AbsentV, AbsentV, AbsentV)
          EXCEPT !.arguments = "null"],
      JedoxCall(IntV(7), S("jedox_list_databases"), AbsentV, AbsentV, AbsentV, AbsentV),
      McpMethod("jedox", IntV(7), S("tools/list")) }

\* Both servers, one request at a time.
NextFault ==
    \/ \E r \in FaultRequests : Receive("c1", r)
    \/ Process("c1")

SpecFault == Init /\ [][NextFault]_vars

\* Handling r raises an exception inside the tools/call branch.
RaisesInCall(r) ==
    /\ r.route = "/mcp" /\ r.body = "object" /\ r.method = S("tools/call")
    /\ \/ r.params = "null"
       \/ /\ r.params = "object" /\ r.arguments = "null"
          /\ \/ r.server = "calc"
             \/ Registered("jedox", r.name) /\ r.name # S("jedox_list_databases")
       \/ /\ r.server = "calc" /\ McpArith(r) /\ ~Lacks(r.a) /\ ~Lacks(r.b)
          /\ ~(OpOf(r) = "div" /\ ZeroDivisor(r.b))
          /\ ~Compute(OpOf(r), r.a, r.b).ok

\* str(e) of the exception handling r raises.
ExceptionText(r) ==
    IF r.params = "null" \/ r.arguments = "null" THEN NoGet("null")
    ELSE Compute(OpOf(r), r.a, r.b).err

\* C11: on both servers, every exception raised in handle_mcp while a
\* tools/call request is processed (an operation applied to operands it does
\* not take, params or arguments that are null) is answered with an error
\* envelope of code -32603 whose message is str(e), and leaves the ledger as it
\* was; the well-formed request sent after it is served as usual (plus(1, 2)
\* answers 3 and appends its entry, tools/list answers the registry).
C11_ExceptionToInternalError ==
    \A c \in Clients :
        LET r == sess[c].req
        IN  /\ (Done(c) /\ RaisesInCall(r)) =>
                  /\ sess[c].resp.kind = "error"
                  /\ sess[c].resp.code = InternalError
                  /\ sess[c].resp.message = ExceptionText(r)
                  /\ store = sess[c].seen
            /\ (Done(c) /\ sess[c].faulted /\ McpArith(r)
                  /\ r.name = S("plus") /\ r.a = IntV(1) /\ r.b = IntV(2)) =>
                  /\ sess[c].resp.kind = "result" /\ sess[c].resp.status = 200
                  /\ sess[c].resp.text = <<"Addition", ": ", "1", " ", "+", " ", "2", " = ", "3">>
                  /\ sess[c].wrote = MaxId(Rows(sess[c].seen)) + 1
            /\ (Done(c) /\ sess[c].faulted /\ r.body = "object"
                  /\ r.method = S("tools/list")) =>
                  /\ sess[c].resp.kind = "result"
                  /\ sess[c].resp.tools =
                        (IF r.server = "jedox" THEN jedox_tools ELSE calc_tools)

\* C11's case: after a request answered with the internal error, plus(1, 2) was
\* answered 3 and wrote the second entry.
C11_Witness ==
    /\ Done("c1") /\ sess["c1"].faulted
    /\ sess["c1"].req = ToolsCall("calc", IntV(7), S("plus"), IntV(1), IntV(2), AbsentV)
    /\ sess["c1"].resp.kind = "result" /\ sess["c1"].wrote = 2

----------------------------------------------------------------------------
(* The gateway tools *)

\* C12: for each of the six gateway tools, when the call to the remote service
\* fails, the response of POST /mcp is a success envelope (result, no error)
\* whose text is "Error: " followed by the failure's message.
C12_GatewayFailureAsErrorText ==
    \A c \in Clients :
        (Done(c) /\ sess[c].req.server = "jedox" /\ WellFormedCall(sess[c].req)
            /\ Registered("jedox", sess[c].req.name) /\ sess[c].gw.fails) =>
            /\ sess[c].resp.kind = "result"
            /\ sess[c].resp.text = <<"Error: ">> \o sess[c].gw.err

----------------------------------------------------------------------------
(* The ledger file failing *)

\* The file stops being readable and writable (open() raises OSError) ...
DiskFails ==
    /\ diskOk /\ diskOk' = FALSE
    /\ UNCHANGED <<store, sess>>

\* ... and is so again.
DiskRecovers ==
    /\ ~diskOk /\ diskOk' = TRUE
    /\ UNCHANGED <<store, sess>>

\* The four operations on both paths, and history reads.
DiskRequests ==
    {ToolsCall("calc", IntV(7), S(op), IntV(1), IntV(2), AbsentV) : op \in ArithOps}
      \cup {Post("/" \o op, IntV(1), IntV(2)) : op \in ArithOps}
      \cup {GetHistory(IntV(2)),
            ToolsCall("calc", IntV(7), S("history"), IntV(1), IntV(2), AbsentV)}

\* The calculator server with a ledger file that fails at times.
NextDisk ==
    \/ \E r \in DiskRequests : Receive("c1", r)
    \/ Process("c1")
    \/ DiskFails
    \/ DiskRecovers

SpecDisk == Init /\ [][NextDisk]_vars

\* C13: when the ledger file cannot be opened while a plus, sub, mul or div
\* (b # 0) request is handled, the request is still answered with its success
\* response carrying the computed value (HTTP 200; no error envelope, no
\* exception), and the ledger is left as it was.
C13_StorageFailureSilent ==
    \A c \in Clients :
        LET r == sess[c].req
        IN  (Done(c) /\ ~sess[c].io /\ Arith(r) /\ IsNum(r.a) /\ IsNum(r.b)
                /\ ~(OpOf(r) = "div" /\ ZeroDivisor(r.b))) =>
                /\ sess[c].resp.status = 200
                /\ McpArith(r) =>
                      /\ sess[c].resp.kind = "result"
                      /\ Contains(sess[c].resp.text,
                                  <<" = ">> \o Str(Compute(OpOf(r), r.a, r.b).v))
                /\ RestArith(r) =>
                      /\ sess[c].resp.kind = "rest"
                      /\ sess[c].resp.result = Compute(OpOf(r), r.a, r.b).v
                /\ store = sess[c].seen
                /\ sess[c].wrote = 0

\* C13's case: with two entries in the ledger and the file failing, POST /div
\* of 1 and 2 answered 0.5 and the ledger kept its two entries.
C13_Witness ==
    /\ Done("c1") /\ ~sess["c1"].io /\ sess["c1"].req = Post("/div", IntV(1), IntV(2))
    /\ sess["c1"].resp.status = 200 /\ sess["c1"].resp.result = FloatV(1, 2)
    /\ Len(Rows(store)) = 2

----------------------------------------------------------------------------
(* The ledger over time *)

\* C14: the ledger is append-only. Whatever requests are handled, in whatever
\* interleaving (arithmetic calls, history reads, tools/list, rejected
\* requests, the first creation of the file), a step never removes the file and
\* the lines the file holds before the step are a prefix of the lines it holds
\* after: every entry written stays, unchanged and in its place.
C14_AppendOnly ==
    [][ /\ store.exists => store'.exists
        /\ Len(store.lines) <= Len(store'.lines)
        /\ SubSeq(store'.lines, 1, Len(store.lines)) = store.lines ]_vars

\* C14's case: two clients' requests were in flight together, a history read
\* and the call that wrote the third entry, on a file created by the first call.
C14_Witness ==
    /\ Done("c1") /\ Done("c2") /\ "c2" \in sess["c1"].conc
    /\ sess["c1"].req = GetHistory(IntV(1)) /\ sess["c2"].wrote = 3
    /\ Len(store.lines) = 4 /\ store.lines[1] = Header

----------------------------------------------------------------------------
(* tools/list *)

\* r is a tools/list request to POST /mcp.
ToolsList(r) == r.route = "/mcp" /\ r.body = "object" /\ r.method = S("tools/list")

\* C15: tools/list of the calculator server answers, whatever requests were
\* handled before it, the same five tools in the same order (plus, sub, mul,
\* div, history), and leaves the ledger as it was.
C15_ToolsListFixed ==
    \A c \in Clients :
        (Done(c) /\ sess[c].req.server = "calc" /\ ToolsList(sess[c].req)) =>
            /\ sess[c].resp.kind = "result" /\ sess[c].resp.status = 200
            /\ Len(sess[c].resp.tools) = 5
            /\ [i \in 1..5 |-> sess[c].resp.tools[i].name]
                  = <<"plus", "sub", "mul", "div", "history">>
            /\ store = sess[c].seen
            /\ sess[c].wrote = 0

\* C15's case: tools/list was answered after three entries were written and a
\* request was answered with an internal error.
C15_Witness ==
    /\ Done("c1") /\ sess["c1"].req = McpMethod("calc", IntV(7), S("tools/list"))
    /\ sess["c1"].faulted /\ Len(Rows(store)) = 3
    /\ Len(sess["c1"].resp.tools) = 5

----------------------------------------------------------------------------
(* The four operations on integers *)

\* The integer operands range over -MaxInt .. MaxInt.
MaxInt == 2

IntOperands == {IntV(i) : i \in -MaxInt..MaxInt}

\* Every operation on every pair of integers, on both paths.
IntRequests ==
    {ToolsCall("calc", IntV(7), S(op), a, b, AbsentV) :
        op \in ArithOps, a \in IntOperands, b \in IntOperands}
      \cup {Post("/" \o op, a, b) : op \in ArithOps, a \in IntOperands, b \in IntOperands}

\* The calculator server asked for one operation on a ledger without entries.
NextArith ==
    \/ \E r \in IntRequests : Len(Rows(store)) = 0 /\ Receive("c1", r)
    \/ Process("c1")

SpecArith == Init /\ [][NextArith]_vars

\* What op is to yield on the integers a and b (b # 0 for div): the sum, the
\* difference, the product as integers, the quotient as the float a / b.
Expected(op, a, b) ==
    CASE op = "plus" -> IntV(a + b)
      [] op = "sub" -> IntV(a - b)
      [] op = "mul" -> IntV(a * b)
      [] OTHER -> IF a = 0 /\ b < 0 THEN NegZero
                  ELSE [k |-> "float", n |-> (IF b < 0 THEN -a ELSE a) \div Gcd(Abs(a), Abs(b)),
                        d |-> Abs(b) \div Gcd(Abs(a), Abs(b)), s |-> <<>>]

\* The part of a tool's text after " = ".
ResultText(text) ==
    LET i == CHOOSE j \in 1..Len(text) : text[j] = " = "
    IN  SubSeq(text, i + 1, Len(text))

\* C16: for all integers a and b of the range, plus, sub, mul and div (b # 0)
\* report a + b, a - b, a * b and the quotient a / b, on POST /mcp (the text
\* after " = ") and on the direct endpoints ("result"), and the entry appended
\* to the ledger holds the operation, a, b and that same result.
C16_ArithmeticResults ==
    \A c \in Clients :
        LET r == sess[c].req
        IN  (Done(c) /\ Arith(r) /\ r.a.k = "int" /\ r.b.k = "int"
                /\ ~(OpOf(r) = "div" /\ r.b.n = 0)) =>
                LET expected == Expected(OpOf(r), r.a.n, r.b.n)
                    rows     == Rows(store)
                    row      == rows[Len(rows)]
                IN  /\ sess[c].resp.status = 200
                    /\ McpArith(r) =>
                          /\ sess[c].resp.kind = "result"
                          /\ ResultText(sess[c].resp.text) = Str(expected)
                    /\ RestArith(r) =>
                          /\ sess[c].resp.kind = "rest"
                          /\ sess[c].resp.result = expected
                          /\ sess[c].resp.a = r.a /\ sess[c].resp.b = r.b
                    /\ Len(rows) = Len(Rows(sess[c].seen)) + 1
                    /\ row[2] = <<OpOf(r)>>
                    /\ row[3] = IntStr(r.a.n) /\ row[4] = IntStr(r.b.n)
                    /\ row[5] = Str(expected)
                    /\ (OpOf(r) # "div" => ParseInt(row[5]).v = expected)

\* C16's case: -1 divided by 2 on POST /div answered -0.5 and wrote it.
C16_Witness ==
    /\ Done("c1") /\ sess["c1"].req = Post("/div", IntV(-1), IntV(2))
    /\ sess["c1"].resp.result = [k |-> "float", n |-> -1, d |-> 2, s |-> <<>>]
    /\ Len(Rows(store)) = 1
    /\ Rows(store)[1][5] = <<"-", "0", ".", "5">>

----------------------------------------------------------------------------
(* Arguments and the tools' schemas *)

\* The "required" list of the schema of a registered tool.
Required(server, name) ==
    LET registry == IF server = "jedox" THEN jedox_tools ELSE calc_tools
        i        == CHOOSE j \in 1..Len(registry) : name = S(registry[j].name)
    IN  registry[i].required

\* The argument of r that has the name key.
Argument(r, key) ==
    CASE key = "a" -> r.a [] key = "b" -> r.b [] key = "limit" -> r.limit
      [] key = "database" -> r.database [] key = "cube" -> r.cube
      [] key = "coordinates" -> r.coordinates [] key = "value" -> r.value
      [] OTHER -> r.coordinates_list

\* C17: on both servers, a tools/call of a registered tool that leaves out an
\* argument of the tool's "required" list is rejected with code -32602 before
\* the tool's handler runs (no call to the remote service, no entry written),
\* and a call that has every required argument is never rejected with -32602.
C17_RequiredArgumentsValidated ==
    \A c \in Clients :
        LET r == sess[c].req
        IN  (Done(c) /\ WellFormedCall(r) /\ Registered(r.server, r.name)) =>
                LET required == Required(r.server, r.name)
                    omitted  == \E i \in 1..Len(required) :
                                    Argument(r, required[i]) = AbsentV
                IN  /\ omitted =>
                          /\ sess[c].resp.kind = "error"
                          /\ sess[c].resp.code = InvalidParams
                          /\ sess[c].gw = NoGateway
                          /\ sess[c].wrote = 0
                    /\ ~omitted =>
                          ~(sess[c].resp.kind = "error" /\ sess[c].resp.code = InvalidParams)

----------------------------------------------------------------------------
(* The file that does not exist yet *)

\* C18: when the ledger file does not exist, a history read answers an empty
\* list (HTTP 200), and the first successful arithmetic call creates the file
\* with the header row and writes its entry with id 1 below it; when the file
\* exists, init_csv leaves it alone: the lines it held are still its first lines.
C18_LazyInitialisation ==
    \A c \in Clients :
        LET r == sess[c].req
        IN  /\ (Done(c) /\ ~sess[c].seen.exists /\ HistoryGet(r)) =>
                  /\ sess[c].resp.status = 200 /\ sess[c].resp.kind = "rest"
                  /\ sess[c].resp.history = <<>> /\ sess[c].resp.count = 0
            /\ (Done(c) /\ ~sess[c].seen.exists /\ Arith(r) /\ Succeeded(sess[c].resp)) =>
                  /\ store.exists
                  /\ Len(store.lines) = 2
                  /\ store.lines[1] = Header
                  /\ store.lines[2][1] = <<"1">>
                  /\ sess[c].wrote = 1
            /\ (Done(c) /\ sess[c].seen.exists) =>
                  /\ store.exists
                  /\ Len(store.lines) >= Len(sess[c].seen.lines)
                  /\ SubSeq(store.lines, 1, Len(sess[c].seen.lines)) = sess[c].seen.lines

\* C18's case: the first call, POST /plus of 1 and 2, found no file and left
\* the header and entry 1.
C18_Witness ==
    /\ Done("c1") /\ ~sess["c1"].seen.exists
    /\ sess["c1"].req = Post("/plus", IntV(1), IntV(2))
    /\ store.lines = <<Header, <<<<"1">>, <<"plus">>, <<"1">>, <<"2">>, <<"3">>, Timestamp>>>>

----------------------------------------------------------------------------
(* Envelopes and HTTP statuses *)

\* C19: every response of the calculator's POST /mcp is an envelope with
\* exactly one of "result" and "error"; with "result" its status is 200, with
\* "error" it is 400 (missing parameters, division by zero, unknown tool,
\* unknown method) or 500 (an exception).
C19_StatusFollowsEnvelope ==
    \A c \in Clients :
        (Done(c) /\ sess[c].req.server = "calc" /\ sess[c].req.route = "/mcp") =>
            /\ sess[c].resp.kind \in {"result", "error"}
            /\ sess[c].resp.kind = "result" => sess[c].resp.status = 200
            /\ sess[c].resp.kind = "error" =>
                  /\ sess[c].resp.status # 200
                  /\ sess[c].resp.code \in {InvalidParams, MethodNotFound} =>
                        sess[c].resp.status = 400
                  /\ sess[c].resp.code = InternalError =>
                        sess[c].resp.status =
                            (IF sess[c].resp.message = DivByZero THEN 400 ELSE 500)

----------------------------------------------------------------------------
(* Reading back what was written *)

\* C20: whatever operands the accepted arithmetic calls had (numbers, strings,
\* booleans), a history read with limit n on the ledger of n >= 1 entries they
\* left returns n entries.
C20_WrittenEntriesReadBack ==
    \A c \in Clients :
        (Done(c) /\ HistoryGet(sess[c].req) /\ Len(Rows(store)) >= 1
            /\ LimitOf(sess[c].req) = IntV(Len(Rows(store)))) =>
            /\ Len(sess[c].resp.history) = Len(Rows(store))
            /\ sess[c].resp.count = Len(Rows(store))

----------------------------------------------------------------------------
(* The two paths to an operation *)

\* Operands of the calls sent on both paths: numbers, a missing operand, zero
\* divisors, text, and inf (the operand 1e999).
PathPairs ==
    OperandPairs \cup ZeroPairs \cup TextPairs
        \cup { <<X, IntV(2)>>, <<Inf, IntV(1)>>, <<IntV(-1), Inf>> }

\* Every operation on every pair, as tools/call and as POST /<operation>.
PathRequests ==
    {ToolsCall("calc", IntV(7), S(op), p[1], p[2], AbsentV) :
        op \in ArithOps, p \in PathPairs}
      \cup {Post("/" \o op, p[1], p[2]) : op \in ArithOps, p \in PathPairs}
      \cup {GetHistory(IntV(1))}

\* The calculator server asked for operations on a ledger of at most one entry.
NextPaths ==
    \/ \E r \in PathRequests : Len(Rows(store)) <= 1 /\ Receive("c1", r)
    \/ Process("c1")

SpecPaths == Init /\ [][NextPaths]_vars

\* The request for the same operation and operands on the other path.
Twin(r) ==
    IF r.route = "/mcp" THEN Post("/" \o OpOf(r), r.a, r.b)
    ELSE ToolsCall("calc", IntV(7), S(OpOf(r)), r.a, r.b, AbsentV)

\* Whether the outcome mcp of a tools/call request and the outcome rest of the
\* matching POST agree: the same ledger afterwards, a computed result on one
\* exactly when on the other, and the same result.
SameOutcome(mcp, rest) ==
    /\ mcp.st = rest.st
    /\ (mcp.resp.kind = "result") = (rest.resp.kind = "rest")
    /\ mcp.resp.kind = "result" => ResultText(mcp.resp.text) = Str(rest.resp.result)

\* The outcome of r's twin, handled on the ledger and the disk r was handled on.
TwinOutcome(c) == calc_serve(Twin(sess[c].req), sess[c].seen, sess[c].io)

\* C21: for every operation and every pair of operands, the tools/call request
\* and the POST /plus, /sub, /mul or /div request, handled on the same ledger,
\* leave the same ledger (both append the same entry, or neither appends), and
\* one reports a computed result exactly when the other does, the same result.
C21_PathsEquivalent ==
    \A c \in Clients :
        (Done(c) /\ Arith(sess[c].req)) =>
            IF McpArith(sess[c].req)
            THEN SameOutcome([resp |-> sess[c].resp, st |-> store], TwinOutcome(c))
            ELSE SameOutcome(TwinOutcome(c), [resp |-> sess[c].resp, st |-> store])

====
